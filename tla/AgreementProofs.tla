--------------------------- MODULE AgreementProofs --------------------------
(***************************************************************************)
(* The tab and its server agree about who is signed in.                    *)
(***************************************************************************)
EXTENDS TabProofs

USE SessionAssumption, KeepAssumption DEF SessionAssumption, KeepAssumption

-----------------------------------------------------------------------------
(* The invariant *)

\* Whom the browser belongs to once it has the answer.
Heir(r) ==
  IF r.step = "call" /\ r.kind = "login" /\ r.answer.ok THEN r.answer.user
  ELSE IF r.step = "call" /\ r.kind = "logout" /\ r.answer # Error THEN Nobody
  ELSE Authenticated(r.jar)

\* The cookie the browser has after an answer, if r.jar is what it had before.
Left(r) == IF r.answer.cookie = Keep THEN r.jar ELSE r.answer.cookie

\* An answer fits the session its request was sent with.
Fits(r) ==
  /\ r.step = "csrf" => r.answer.ok \/ r.answer = Error
  /\ r.step = "current" =>
       r.answer.user = Authenticated(r.jar) \/ r.answer = Error
  /\ Authenticated(Left(r)) = Heir(r)

\* A request belongs to the session of cookie c.
Proper(r, c) ==
  /\ r.kind # "aborted"
  /\ Authenticated(r.jar) = Authenticated(c)
  /\ r.answer # Pending => Fits(r)

\* A request brings the token it needs, and its answer is not lost.
Whole(r) ==
  /\ r.step = "call" /\ r.kind # "account" => r.token
  /\ r.answer # Pending => r.answer # Error

AllProper(r, c) == \A s \in Slot : r[s] # Idle => Proper(r[s], c)
AllWhole(r) == \A s \in Slot : r[s] # Idle => Whole(r[s])

\* Only AuthProvider's effect runs, and nobody is shown yet.
Alone(r) == \E s \in Slot : /\ r[s] # Idle /\ r[s].kind = "init"
                            /\ \A t \in Slot \ {s} : r[t] = Idle
Starting == auth = [user |-> Nobody, loading |-> TRUE] /\ Alone(req)

\* Whoever is shown is served; and the other way round while nothing was lost.
Agreement ==
  ~ crossed =>
    /\ ~ Overlap(req)
    /\ AllProper(req, cookie)
    /\ auth.user \in {Nobody, Authenticated(cookie)}
    /\ ~ lost => /\ AllWhole(req)
                 /\ Starting \/ auth.user = Authenticated(cookie)

-----------------------------------------------------------------------------
(* Requests *)

\* What a request is sent with is the session the browser has.
LEMMA SentProper ==
  ASSUME NEW kind \in Kind \ {"aborted"}, NEW step, NEW who, NEW here
  PROVE  Proper(Sent(kind, step, who, here), cookie')
BY DEF Sent, Proper

LEMMA SentWhole ==
  ASSUME NEW kind, NEW step, NEW who, NEW here,
         step = "call" /\ kind # "account" => csrf'
  PROVE  Whole(Sent(kind, step, who, here))
BY DEF Sent, Whole

\* Nor does the session change when a component goes.
LEMMA LeaveProper ==
  ASSUME NEW r \in Request, NEW c, Proper(r, c)
  PROVE  Proper(Leave(r), c)
<1>1. /\ Leave(r).kind = r.kind /\ Leave(r).step = r.step
      /\ Leave(r).jar = r.jar /\ Leave(r).token = r.token
      /\ Leave(r).answer = r.answer
  BY LeaveKeeps DEF Leave, Request
<1> QED
  BY <1>1 DEF Proper, Fits, Left, Heir

LEMMA LeaveWhole ==
  ASSUME NEW r \in Request, Whole(r)
  PROVE  Whole(Leave(r))
<1>1. /\ Leave(r).kind = r.kind /\ Leave(r).step = r.step
      /\ Leave(r).token = r.token /\ Leave(r).answer = r.answer
  BY DEF Leave, Request
<1> QED
  BY <1>1 DEF Whole

\* A commit sends GET /account with the new cookie.
LEMMA CommitProper ==
  ASSUME NEW r \in Requests, NEW a, NEW p, NEW acc, Commit(a, p, acc, r),
         AllProper(r, cookie')
  PROVE  AllProper(req', cookie')
<1>1. \A s \in Slot : Leave(r[s]) # Idle => Proper(Leave(r[s]), cookie')
  <2> SUFFICES ASSUME NEW s \in Slot, Leave(r[s]) # Idle
               PROVE  Proper(Leave(r[s]), cookie')
    OBVIOUS
  <2>1. r[s] # Idle /\ r[s] \in Request
    BY DEF Leave, Requests
  <2> QED
    BY <2>1, LeaveProper DEF AllProper
<1>2. Proper(Sent("account", "call", Nobody, TRUE), cookie')
  BY SentProper DEF Kind
<1>3. CASE req' = r
  BY <1>3
<1>4. CASE req' = [s \in Slot |-> Leave(r[s])]
  BY <1>1, <1>4 DEF AllProper
<1>5. CASE \E s \in Slot :
             req' = [t \in Slot |->
                       IF t = s THEN Sent("account", "call", Nobody, TRUE)
                       ELSE Leave(r[t])]
  BY <1>1, <1>2, <1>5 DEF AllProper
<1> QED
  BY <1>3, <1>4, <1>5 DEF Commit

\* GET /account needs no token.
LEMMA CommitWhole ==
  ASSUME NEW r \in Requests, NEW a, NEW p, NEW acc, Commit(a, p, acc, r),
         AllWhole(r)
  PROVE  AllWhole(req')
<1>1. \A s \in Slot : Leave(r[s]) # Idle => Whole(Leave(r[s]))
  <2> SUFFICES ASSUME NEW s \in Slot, Leave(r[s]) # Idle
               PROVE  Whole(Leave(r[s]))
    OBVIOUS
  <2>1. r[s] # Idle /\ r[s] \in Request
    BY DEF Leave, Requests
  <2> QED
    BY <2>1, LeaveWhole DEF AllWhole
<1>2. Whole(Sent("account", "call", Nobody, TRUE))
  BY SentWhole
<1>3. CASE req' = r
  BY <1>3
<1>4. CASE req' = [s \in Slot |-> Leave(r[s])]
  BY <1>1, <1>4 DEF AllWhole
<1>5. CASE \E s \in Slot :
             req' = [t \in Slot |->
                       IF t = s THEN Sent("account", "call", Nobody, TRUE)
                       ELSE Leave(r[t])]
  BY <1>1, <1>2, <1>5 DEF AllWhole
<1> QED
  BY <1>3, <1>4, <1>5 DEF Commit

\* A commit agrees with the server when what it shows and what it leaves in
\* flight do.
LEMMA CommitAgrees ==
  ASSUME salt' = salt, NEW r \in Requests, NEW a, NEW p, NEW acc,
         Commit(a, p, acc, r), Record,
         ~ crossed => /\ AllProper(r, cookie')
                      /\ a.user \in {Nobody, Authenticated(cookie')},
         ~ crossed /\ ~ lost => AllWhole(r) /\ a.user = Authenticated(cookie')
  PROVE  Agreement'
<1>1. auth' = a /\ lost' = lost /\ crossed' = (crossed \/ Overlap(req'))
  BY DEF Commit, Record
<1>2. ASSUME ~ crossed'
      PROVE  /\ ~ Overlap(req')
             /\ AllProper(req, cookie)'
             /\ (auth.user \in {Nobody, Authenticated(cookie)})'
  <2>1. ~ crossed /\ ~ Overlap(req')
    BY <1>1, <1>2
  <2>2. AllProper(req', cookie')
    BY <2>1, CommitProper
  <2>3. AllProper(req, cookie)'
    BY <2>2 DEF AllProper, Proper, Fits, Left, Heir, Authenticated
  <2>4. (auth.user \in {Nobody, Authenticated(cookie)})'
    BY <1>1, <2>1 DEF Authenticated
  <2> QED
    BY <2>1, <2>3, <2>4
<1>3. ASSUME ~ crossed', ~ lost'
      PROVE  AllWhole(req') /\ (auth.user = Authenticated(cookie))'
  <2>1. ~ crossed /\ ~ lost
    BY <1>1, <1>3
  <2>2. AllWhole(req')
    BY <2>1, CommitWhole
  <2>3. (auth.user = Authenticated(cookie))'
    BY <1>1, <2>1 DEF Authenticated
  <2> QED
    BY <2>2, <2>3
<1>4. AllWhole(req') => AllWhole(req)'
  BY DEF AllWhole, Whole
<1> QED
  BY <1>2, <1>3, <1>4 DEF Agreement

\* A request that changes the session runs alone.
LEMMA ChangesAlone ==
  ASSUME ~ Overlap(req), NEW s \in Slot, req[s] # Idle, req[s].kind \in Changing
  PROVE  \A t \in Slot \ {s} : req[t] = Idle
BY DEF Overlap

\* The cookie of a proper answer is that of the heir.
LEMMA HeirAuthenticated ==
  ASSUME NEW s \in Slot, req[s].answer # Pending, TakeCookie(s),
         Proper(req[s], cookie)
  PROVE  Authenticated(cookie') = Heir(req[s])
BY DEF TakeCookie, Proper, Fits, Left, Authenticated

\* So the requests that remain belong to the session that remains.
LEMMA RestProper ==
  ASSUME TypeOK, NEW s \in Slot, req[s] # Idle, req[s].answer # Pending,
         TakeCookie(s), ~ Overlap(req), AllProper(req, cookie)
  PROVE  \A t \in Slot \ {s} : req[t] # Idle => Proper(req[t], cookie')
<1>1. Proper(req[s], cookie)
  BY DEF AllProper
<1>2. CASE req[s].kind \in {"login", "logout"}
  BY <1>2, ChangesAlone DEF Changing
<1>3. CASE req[s].kind \notin {"login", "logout"}
  <2>1. Authenticated(cookie') = Authenticated(cookie)
    BY <1>1, <1>3, HeirAuthenticated DEF Heir, Proper
  <2> QED
    BY <2>1 DEF AllProper, Proper
<1> QED
  BY <1>2, <1>3

LEMMA OverProper ==
  ASSUME TypeOK, NEW s \in Slot, req[s] # Idle, req[s].answer # Pending,
         TakeCookie(s), ~ Overlap(req), AllProper(req, cookie)
  PROVE  AllProper(Over(s), cookie')
<1>1. Over(s)[s] = Idle /\ \A t \in Slot \ {s} : Over(s)[t] = req[t]
  BY DEF Over, TypeOK
<1> QED
  BY <1>1, RestProper DEF AllProper

LEMMA GoOnProper ==
  ASSUME TypeOK, NEW s \in Slot, req[s] # Idle, req[s].answer # Pending,
         TakeCookie(s), ~ Overlap(req), AllProper(req, cookie), NEW step
  PROVE  AllProper(GoOn(s, step), cookie')
<1>1. /\ GoOn(s, step)[s] = Sent(req[s].kind, step, req[s].who, req[s].here)
      /\ \A t \in Slot \ {s} : GoOn(s, step)[t] = req[t]
  BY DEF GoOn, TypeOK
<1>2. req[s].kind \in Kind \ {"aborted"}
  BY Answerable DEF AllProper, Proper, Request
<1>3. Proper(GoOn(s, step)[s], cookie')
  BY <1>1, <1>2, SentProper
<1> QED
  BY <1>1, <1>3, RestProper DEF AllProper

\* What remains is as whole as it was.
LEMMA OverWhole ==
  ASSUME TypeOK, NEW s \in Slot, AllWhole(req)
  PROVE  AllWhole(Over(s))
<1>1. Over(s)[s] = Idle /\ \A t \in Slot \ {s} : Over(s)[t] = req[t]
  BY DEF Over, TypeOK
<1> QED
  BY <1>1 DEF AllWhole

LEMMA GoOnWhole ==
  ASSUME TypeOK, NEW s \in Slot, AllWhole(req), NEW step, step = "call" => csrf'
  PROVE  AllWhole(GoOn(s, step))
<1>1. /\ GoOn(s, step)[s] = Sent(req[s].kind, step, req[s].who, req[s].here)
      /\ \A t \in Slot \ {s} : GoOn(s, step)[t] = req[t]
  BY DEF GoOn, TypeOK
<1>2. Whole(GoOn(s, step)[s])
  BY <1>1, SentWhole
<1> QED
  BY <1>1, <1>2 DEF AllWhole

-----------------------------------------------------------------------------
(* Steps *)

\* While AuthProvider's effect runs the spinner is all there is.
LEMMA StartingSpins ==
  ASSUME Starting, NEW p
  PROVE  Shows(auth, p) = "loading"
BY DEF Starting, Shows

\* What a person starts is sent with the session shown.
LEMMA StartedAgrees ==
  ASSUME TypeOK, Agreement, UNCHANGED <<salt, cookie, csrf>>, Record,
         ~ Starting, NEW s \in Slot, NEW kind \in Kind \ {"aborted"}, NEW who \in Anyone,
         NEW a, a.user = auth.user, NEW acc,
         Commit(a, place, acc, [req EXCEPT ![s] = Sent(kind, "csrf", who, TRUE)])
  PROVE  Agreement'
<1> DEFINE sent == Sent(kind, "csrf", who, TRUE)
           r    == [req EXCEPT ![s] = sent]
<1>1. Proper(sent, cookie') /\ Whole(sent)
  BY SentProper, SentWhole
<1>2. sent \in Request
  BY SentTyped DEF TypeOK
<1>3. r \in Requests
  BY <1>2 DEF TypeOK, Requests
<1>4. r[s] = sent /\ \A t \in Slot \ {s} : r[t] = req[t]
  BY DEF TypeOK
<1> HIDE DEF sent, r
<1>5. ~ crossed => /\ AllProper(r, cookie')
                   /\ a.user \in {Nobody, Authenticated(cookie')}
  BY <1>1, <1>4 DEF Agreement, AllProper, Authenticated
<1>6. ~ crossed /\ ~ lost => AllWhole(r) /\ a.user = Authenticated(cookie')
  BY <1>1, <1>4 DEF Agreement, AllWhole, Authenticated
<1> QED
  BY <1>3, <1>5, <1>6, CommitAgrees DEF r, sent

LEMMA UserStepAgrees ==
  ASSUME TypeOK, Agreement,
         \/ \E who \in Anyone : SignIn(who)
         \/ SignOut
         \/ SaveProfile
         \/ ChangePassword
         \/ \E p \in Place : Navigate(p)
  PROVE  Agreement'
<1>0. Loading.user = auth.user
  BY DEF Loading, TypeOK, Auth
<1>1. ASSUME NEW who \in Anyone, SignIn(who) PROVE Agreement'
  <2>1. ~ Starting
    BY <1>1, StartingSpins DEF SignIn
  <2> QED
    BY <1>0, <1>1, <2>1, StartedAgrees DEF SignIn, Kind
<1>2. CASE SignOut
  <2>1. ~ Starting
    BY <1>2, StartingSpins DEF SignOut, AtForms
  <2> QED
    BY <1>0, <1>2, <2>1, StartedAgrees DEF SignOut, Kind, Anyone
<1>3. CASE SaveProfile
  <2>1. ~ Starting
    BY <1>3, StartingSpins DEF SaveProfile, AtForms
  <2> QED
    BY <1>3, <2>1, StartedAgrees DEF SaveProfile, Kind, Anyone
<1>4. CASE ChangePassword
  <2>1. ~ Starting
    BY <1>4, StartingSpins DEF ChangePassword, AtForms
  <2> QED
    BY <1>4, <2>1, StartedAgrees DEF ChangePassword, Kind, Anyone
<1>5. ASSUME NEW p \in Place, Navigate(p) PROVE Agreement'
  <2>1. CASE Starting
    <3>1. UNCHANGED <<salt, cookie, auth, req>>
      BY <1>5, <2>1, SpinnerStays DEF Starting
    <3>2. crossed' = (crossed \/ Overlap(req')) /\ lost' = lost
      BY <1>5 DEF Navigate, Record
    <3>3. Starting' /\ (AllWhole(req) => AllWhole(req)')
      BY <2>1, <3>1 DEF Starting, Alone, AllWhole, Whole
    <3>4. ~ crossed' => AllProper(req, cookie)'
      <4>1. ~ crossed' => AllProper(req', cookie')
        BY <3>1, <3>2 DEF Agreement
      <4> QED
        BY <3>1, <4>1 DEF AllProper, Proper, Fits, Left, Heir, Authenticated
    <3>5. (auth.user \in {Nobody, Authenticated(cookie)})'
      BY <2>1, <3>1 DEF Starting
    <3> QED
      BY <3>2, <3>3, <3>4, <3>5 DEF Agreement
  <2>2. CASE ~ Starting
    <3>1. req \in Requests
      BY DEF TypeOK, Requests
    <3>2. ~ crossed => /\ AllProper(req, cookie')
                       /\ auth.user \in {Nobody, Authenticated(cookie')}
      BY <1>5 DEF Navigate, Agreement, AllProper, Authenticated
    <3>3. ~ crossed /\ ~ lost =>
            AllWhole(req) /\ auth.user = Authenticated(cookie')
      BY <1>5, <2>2 DEF Navigate, Agreement, Authenticated
    <3> QED
      BY <1>5, <3>1, <3>2, <3>3, CommitAgrees DEF Navigate
  <2> QED
    BY <2>1, <2>2
<1> QED
  BY <1>1, <1>2, <1>3, <1>4, <1>5

\* Opening the page anew starts with the cookie alone.
LEMMA ReloadAgrees ==
  ASSUME TypeOK, NEW p \in Place, Reload(p)
  PROVE  Agreement'
<1> DEFINE left == [t \in Slot |-> Abort(req[t])]
<1>1. PICK s \in Slot : Free(left, s) /\ req' = StartOver(left, s)
  BY DEF Reload
<1>2. req'[s] = Sent("init", "csrf", Nobody, FALSE)
  BY <1>1 DEF StartOver
<1>3. req'[s].kind = "init" /\ req'[s] # Idle
  BY <1>2 DEF Sent, Idle
<1>4. Proper(req'[s], cookie') /\ Whole(req'[s])
  BY <1>2, SentProper, SentWhole DEF Kind
<1>5. \A t \in Slot \ {s} : req'[t] # Idle => req'[t].kind = "aborted"
  <2> SUFFICES ASSUME NEW t \in Slot \ {s}, req'[t] # Idle
               PROVE  req'[t].kind = "aborted"
    OBVIOUS
  <2>1. req'[t] = Abort(req[t])
    BY <1>1 DEF StartOver
  <2>2. req[t] # Idle /\ req'[t] = [req[t] EXCEPT !.kind = "aborted",
                                                  !.here = FALSE]
    BY <2>1 DEF Abort
  <2> QED
    BY <2>2, Answerable DEF Request
<1>6. ASSUME ~ crossed' PROVE \A t \in Slot \ {s} : req'[t] = Idle
  BY <1>3, <1>5, <1>6 DEF Reload, Overlap, Changing
<1>7. crossed' = Overlap(req') /\ salt' = salt
      /\ auth' = [user |-> Nobody, loading |-> TRUE]
  BY DEF Reload
<1>8. ASSUME ~ crossed' PROVE AllProper(req, cookie)'
  BY <1>4, <1>6, <1>7, <1>8 DEF AllProper, Proper, Fits, Left, Heir, Authenticated
<1>9. ASSUME ~ crossed' PROVE Starting' /\ AllWhole(req)'
  BY <1>3, <1>4, <1>6, <1>7, <1>9 DEF Starting, Alone, AllWhole, Whole
<1>10. auth'.user = Nobody
  BY <1>7
<1> QED
  BY <1>7, <1>8, <1>9, <1>10 DEF Agreement

\* A session that is taken out of the cookie was nobody's.
LEMMA CleanAlike ==
  ASSUME NEW c
  PROVE  Authenticated(Clean(c)) = Authenticated(c)
BY DEF Clean, Authenticated, NoSession

\* The server answers for the session the request was sent with.
LEMMA AnswerFits ==
  ASSUME TypeOK, NEW r \in Request, Proper(r, cookie), NEW a \in Answers(r)
  PROVE  Fits([r EXCEPT !.answer = a])
<1> DEFINE n == [r EXCEPT !.answer = a]
<1>1. /\ n.kind = r.kind /\ n.step = r.step /\ n.jar = r.jar /\ n.answer = a
      /\ r.jar \in Cookie /\ r.who \in Anyone
  BY DEF Request
<1>3. Authenticated(Clean(r.jar)) = Authenticated(r.jar)
  BY CleanAlike
<1> HIDE DEF n
<1>9. CASE Forged(r)
  <2>1. a = Error
    BY <1>9 DEF Answers
  <2> QED
    BY <1>1, <2>1 DEF Fits, Left, Heir, Error
<1>2. SUFFICES ASSUME ~ Forged(r) PROVE Fits(n)
  BY <1>9 DEF n
<1>4. CASE r.step = "csrf"
  <2>1. a = Ok(Nobody, r.jar)
    BY <1>2, <1>4 DEF Answers
  <2> QED
    BY <1>1, <1>4, <2>1 DEF Fits, Left, Heir, Ok
<1>5. CASE r.step = "current"
  <2>1. a = Ok(Authenticated(r.jar), Clean(r.jar))
    BY <1>2, <1>5 DEF Answers, CurrentSession
  <2> QED
    BY <1>1, <1>3, <1>5, <2>1 DEF Fits, Left, Heir, Ok
<1>6. CASE r.step = "call" /\ r.kind = "login"
  <2>1. a = CreateSession(r)
    BY <1>2, <1>6 DEF Answers, Called
  <2>2. CASE r.who = Nobody
    BY <1>1, <1>6, <2>1, <2>2 DEF CreateSession, Fits, Left, Heir, Refused
  <2>3. CASE r.who # Nobody
    <3> DEFINE c == [user |-> r.who, salt |-> salt[r.who]]
    <3>1. a = Ok(r.who, c)
      BY <2>1, <2>3 DEF CreateSession
    <3>2. c \in Cookie
      BY <1>1, <2>3 DEF Cookie, TypeOK, Anyone
    <3>3. c # Keep /\ Authenticated(c) = r.who
      BY <2>3, <3>2 DEF Authenticated
    <3> HIDE DEF c
    <3> QED
      BY <1>1, <1>6, <3>1, <3>3 DEF Fits, Left, Heir, Ok
  <2> QED
    BY <2>2, <2>3
<1>7. CASE r.step = "call" /\ r.kind = "logout"
  <2>1. a = DestroySession(r)
    BY <1>2, <1>7 DEF Answers, Called
  <2>2. /\ NoSession # Keep /\ Authenticated(NoSession) = Nobody
        /\ Ok(Nobody, NoSession) # Error
    <3>1. NoSession \in Cookie
      BY DEF NoSession, Cookie, Anyone
    <3> QED
      BY <3>1 DEF NoSession, Authenticated, Ok, Error
  <2>3. CASE Authenticated(r.jar) = Nobody
    BY <1>1, <1>3, <1>7, <2>1, <2>3 DEF DestroySession, Fits, Left, Heir, Refused
  <2>4. CASE Authenticated(r.jar) # Nobody
    BY <1>1, <1>7, <2>1, <2>2, <2>4 DEF DestroySession, Fits, Left, Heir, Ok
  <2> QED
    BY <2>3, <2>4
<1>8. CASE r.step = "call" /\ r.kind \notin {"login", "logout"}
  <2>1. a.cookie = Clean(r.jar)
    BY <1>2, <1>8 DEF Answers, Called, UpdateAccount, ShowAccount, Refused, Ok
  <2> QED
    BY <1>1, <1>3, <1>8, <2>1 DEF Fits, Left, Heir
<1> QED
  BY <1>4, <1>5, <1>6, <1>7, <1>8 DEF Request, n

\* To a request with its token, and never that it is lost.
LEMMA AnswerWhole ==
  ASSUME TypeOK, NEW r \in Request, Whole(r), NEW a \in Answers(r)
  PROVE  Whole([r EXCEPT !.answer = a])
<1>1. r.jar \in Cookie /\ r.who \in Anyone
  BY DEF Request
<1>2. Clean(r.jar) \in Cookie /\ NoSession \in Cookie
  BY <1>1 DEF Clean, NoSession, Cookie, Anyone
<1>3. ~ Forged(r)
  BY DEF Forged, Whole
<1>4. ASSUME NEW u, NEW c \in Cookie PROVE Ok(u, c) # Error /\ Refused(c) # Error
  BY <1>4 DEF Ok, Refused, Error
<1>5. CreateSession(r) # Error
  <2>1. CASE r.who = Nobody
    BY <1>1, <1>4, <2>1 DEF CreateSession
  <2>2. CASE r.who # Nobody
    <3>1. [user |-> r.who, salt |-> salt[r.who]] \in Cookie
      BY <1>1, <2>2 DEF Cookie, TypeOK, Anyone
    <3> QED
      BY <1>4, <2>2, <3>1 DEF CreateSession
  <2> QED
    BY <2>1, <2>2
<1>6. DestroySession(r) # Error /\ CurrentSession(r) # Error
      /\ ShowAccount(r) # Error
  BY <1>2, <1>4 DEF DestroySession, CurrentSession, ShowAccount
<1>7. a # Error
  BY <1>1, <1>2, <1>3, <1>4, <1>5, <1>6 DEF Answers, Called, UpdateAccount
<1>8. /\ [r EXCEPT !.answer = a].kind = r.kind
      /\ [r EXCEPT !.answer = a].step = r.step
      /\ [r EXCEPT !.answer = a].token = r.token
      /\ [r EXCEPT !.answer = a].answer = a
  BY DEF Request
<1> QED
  BY <1>7, <1>8 DEF Whole

LEMMA ServeAgrees ==
  ASSUME TypeOK, Agreement, NEW s \in Slot, Serve(s)
  PROVE  Agreement'
<1> SUFFICES ASSUME ~ crossed' PROVE Agreement'
  BY DEF Agreement
<1>1. PICK a \in Answers(req[s]) :
        /\ req' = [req EXCEPT ![s].answer = a]
        /\ UNCHANGED <<salt, crossed>>
  BY DEF Serve
<1>2. /\ req[s] # Idle /\ req[s] \in Request
      /\ UNCHANGED <<cookie, auth, lost>>
  BY Answerable DEF Serve
<1>3. /\ ~ Overlap(req)
      /\ AllProper(req, cookie)
      /\ auth.user \in {Nobody, Authenticated(cookie)}
      /\ ~ lost => /\ AllWhole(req)
                   /\ Starting \/ auth.user = Authenticated(cookie)
  BY <1>1 DEF Agreement
<1> DEFINE n == [req[s] EXCEPT !.answer = a]
<1>4. req'[s] = n /\ \A t \in Slot \ {s} : req'[t] = req[t]
  BY <1>1 DEF TypeOK
<1>5. /\ n.kind = req[s].kind /\ n.step = req[s].step /\ n.jar = req[s].jar
      /\ n.kind \in Kind
  BY <1>2 DEF Request
<1>6. Proper(req[s], cookie) /\ Fits(n)
  BY <1>2, <1>3, AnswerFits DEF AllProper
<1>7. ~ lost => Whole(n)
  BY <1>2, <1>3, AnswerWhole DEF AllWhole
<1> HIDE DEF n
<1>8. Proper(n, cookie) /\ n # Idle
  BY <1>5, <1>6 DEF Proper, Idle, Kind
<1>9. ~ Overlap(req')
  BY <1>2, <1>3, <1>4, <1>5, <1>8 DEF Overlap
<1>10. AllProper(req', cookie)
  BY <1>3, <1>4, <1>8 DEF AllProper
<1>11. AllProper(req, cookie)'
  BY <1>1, <1>2, <1>10 DEF AllProper, Proper, Fits, Left, Heir, Authenticated
<1>12. ASSUME Starting PROVE Starting'
  BY <1>2, <1>4, <1>5, <1>8, <1>12 DEF Starting, Alone
<1>13. Authenticated(cookie)' = Authenticated(cookie)
  BY <1>1, <1>2 DEF Authenticated
<1>14. ~ lost => AllWhole(req)'
  BY <1>3, <1>4, <1>7 DEF AllWhole, Whole
<1> QED
  BY <1>2, <1>3, <1>9, <1>11, <1>12, <1>13, <1>14 DEF Agreement

\* A lost answer leaves the browser as it is.
LEMMA LoseAgrees ==
  ASSUME TypeOK, Agreement, NEW s \in Slot, Lose(s)
  PROVE  Agreement'
<1> SUFFICES ASSUME ~ crossed PROVE Agreement'
  BY DEF Agreement, Lose
<1> DEFINE n == [req[s] EXCEPT !.answer = Error]
<1>1. /\ req[s] # Idle /\ req[s] \in Request /\ lost'
      /\ UNCHANGED <<salt, cookie, auth, crossed>>
  BY Answerable DEF Lose
<1>2. req'[s] = n /\ \A t \in Slot \ {s} : req'[t] = req[t]
  BY DEF Lose, TypeOK
<1>3. /\ n.kind = req[s].kind /\ n.step = req[s].step /\ n.jar = req[s].jar
      /\ n.kind \in Kind /\ n.answer = Error
  BY <1>1 DEF Request
<1> HIDE DEF n
<1>4. /\ ~ Overlap(req) /\ AllProper(req, cookie)
      /\ auth.user \in {Nobody, Authenticated(cookie)}
  BY DEF Agreement
<1>5. Fits(n)
  BY <1>3 DEF Fits, Left, Heir, Error
<1>6. Proper(n, cookie) /\ n # Idle
  BY <1>1, <1>3, <1>4, <1>5 DEF Proper, AllProper, Idle, Kind
<1>7. ~ Overlap(req')
  BY <1>1, <1>2, <1>3, <1>4, <1>6 DEF Overlap
<1>8. AllProper(req', cookie)
  BY <1>2, <1>4, <1>6 DEF AllProper
<1>9. AllProper(req, cookie)'
  BY <1>1, <1>8 DEF AllProper, Proper, Fits, Left, Heir, Authenticated
<1>10. Authenticated(cookie)' = Authenticated(cookie)
  BY <1>1 DEF Authenticated
<1> QED
  BY <1>1, <1>4, <1>7, <1>9, <1>10 DEF Agreement

\* The code makes of every answer what the server meant by it.
LEMMA TokenAgrees ==
  ASSUME TypeOK, Agreement, NEW s \in Slot, NEW kind \in Kind,
         TokenArrives(s, kind)
  PROVE  Agreement'
<1> DEFINE step == IF kind = "init" THEN "current" ELSE "call"
<1> SUFFICES ASSUME ~ crossed' PROVE Agreement'
  BY DEF Agreement
<1>1. /\ req[s] # Idle /\ req[s].kind = kind /\ req[s].step = "csrf"
      /\ req[s].answer # Pending /\ TakeCookie(s) /\ salt' = salt
      /\ Commit(auth, place, account, GoOn(s, step)) /\ Record
  BY DEF TokenArrives, Answered
<1>2. /\ ~ crossed /\ ~ Overlap(req) /\ AllProper(req, cookie)
      /\ auth.user \in {Nobody, Authenticated(cookie)}
      /\ ~ lost => /\ AllWhole(req)
                   /\ Starting \/ auth.user = Authenticated(cookie)
  BY <1>1 DEF Agreement, Record
<1>3. Proper(req[s], cookie) /\ (~ lost => req[s].answer.ok)
  BY <1>1, <1>2 DEF AllProper, Proper, Fits, AllWhole, Whole
<1>4. ~ lost => csrf'
  BY <1>3 DEF TokenArrives
<1>5. Authenticated(cookie') = Authenticated(cookie)
  BY <1>1, <1>3, HeirAuthenticated DEF Heir, Proper
<1>6. cookie' \in Cookie /\ csrf' \in BOOLEAN
  <2>1. req[s].answer.ok \in BOOLEAN /\ cookie' \in Cookie
    BY <1>1, CookieTyped DEF Answer
  <2> QED
    BY <2>1 DEF TokenArrives, TypeOK
<1>7. GoOn(s, step) \in Requests
  BY <1>1, <1>6, GoOnTyped
<1>8. AllProper(GoOn(s, step), cookie')
  BY <1>1, <1>2, GoOnProper
<1>9. ~ lost => AllWhole(GoOn(s, step))
  BY <1>2, <1>4, GoOnWhole
<1>10. CASE lost \/ auth.user = Authenticated(cookie)
  BY <1>1, <1>2, <1>5, <1>7, <1>8, <1>9, <1>10, CommitAgrees
<1>11. CASE ~ lost /\ Starting
  <2>1. Shows(auth, place) = "loading"
    BY <1>11, StartingSpins
  <2>2. auth' = auth /\ req' = GoOn(s, step)
    BY <1>1, <2>1 DEF Commit
  <2>3. /\ req'[s].kind = req[s].kind /\ req'[s] # Idle
        /\ \A t \in Slot \ {s} : req'[t] = req[t]
    BY <2>2 DEF GoOn, Sent, Idle, TypeOK
  <2>4. Starting' /\ auth'.user = Nobody
    BY <1>1, <1>11, <2>2, <2>3 DEF Starting, Alone
  <2>5. AllProper(req, cookie)'
    BY <1>1, <1>8, <2>2 DEF AllProper, Proper, Fits, Left, Heir, Authenticated
  <2>6. AllWhole(req)'
    BY <1>9, <1>11, <2>2 DEF AllWhole, Whole
  <2> QED
    BY <1>1, <2>4, <2>5, <2>6 DEF Agreement, Record
<1> QED
  BY <1>2, <1>10, <1>11

LEMMA DeliverAgrees ==
  ASSUME TypeOK, Agreement, NEW s \in Slot, Deliver(s)
  PROVE  Agreement'
<1> SUFFICES ASSUME ~ crossed' PROVE Agreement'
  BY DEF Agreement
<1>1. ASSUME NEW kind \in Kind, TokenArrives(s, kind) PROVE Agreement'
  BY <1>1, TokenAgrees
<1>2. CASE AbortedArrives(s)
  <2>1. ~ crossed /\ req[s] # Idle /\ req[s].kind = "aborted"
    BY <1>2 DEF AbortedArrives, Answered
  <2> QED
    BY <2>1 DEF Agreement, AllProper, Proper
<1>3. CASE ~ \E kind \in Kind : TokenArrives(s, kind) \/ AbortedArrives(s)
  <2>1. /\ req[s] # Idle /\ req[s].answer # Pending /\ TakeCookie(s)
        /\ salt' = salt /\ csrf' = csrf /\ Record
    BY <1>3 DEF Deliver, Kind, InitArrives, LoginArrives, LogoutArrives,
       SaveArrives, RefreshArrives, PasswordArrives, AccountArrives, Answered
  <2>2. /\ ~ crossed /\ ~ Overlap(req) /\ AllProper(req, cookie)
        /\ auth.user \in {Nobody, Authenticated(cookie)}
        /\ ~ lost => /\ AllWhole(req)
                     /\ Starting \/ auth.user = Authenticated(cookie)
    BY <2>1 DEF Agreement, Record
  <2>3. /\ Proper(req[s], cookie) /\ Fits(req[s])
        /\ ~ lost => req[s].answer # Error
    BY <2>1, <2>2 DEF AllProper, Proper, AllWhole, Whole
  <2>4. Authenticated(cookie') = Heir(req[s])
    BY <2>1, <2>3, HeirAuthenticated
  <2>5. /\ Over(s) \in Requests /\ AllProper(Over(s), cookie')
        /\ ~ lost => AllWhole(Over(s))
    BY <2>1, <2>2, OverTyped, OverProper, OverWhole
  <2>6. \A u : Loaded(u).user = u
    BY DEF Loaded
  <2>7. Failed.user = auth.user /\ Loading.user = auth.user
    BY DEF Failed, Loading, TypeOK, Auth
  <2>8. ~ lost /\ req[s].kind # "init" => auth.user = Authenticated(cookie)
    BY <2>1, <2>2 DEF Starting, Alone
  <2>9. CASE InitArrives(s) \/ RefreshArrives(s)
    <3>1. req[s].step = "current"
      BY <2>9 DEF InitArrives, RefreshArrives, Answered
    <3>2. /\ req[s].answer.user \in {Nobody, Authenticated(cookie')}
          /\ ~ lost => req[s].answer.user = Authenticated(cookie')
      BY <2>3, <2>4, <3>1 DEF Fits, Heir, Error
    <3>3. PICK acc : Commit(Loaded(req[s].answer.user), place, acc, Over(s))
      BY <2>9 DEF InitArrives, RefreshArrives
    <3> QED
      BY <2>1, <2>5, <2>6, <3>2, <3>3, CommitAgrees
  <2>10. CASE LoginArrives(s)
    <3>1. req[s].kind = "login" /\ req[s].step = "call"
      BY <2>10 DEF LoginArrives, Answered
    <3>2. CASE req[s].answer.ok
      <4>1. Authenticated(cookie') = req[s].answer.user
        BY <2>4, <3>1, <3>2 DEF Heir
      <4> QED
        BY <2>1, <2>5, <2>6, <2>10, <3>2, <4>1, CommitAgrees DEF LoginArrives
    <3>3. CASE ~ req[s].answer.ok
      <4>1. Authenticated(cookie') = Authenticated(cookie)
        BY <2>3, <2>4, <3>1, <3>3 DEF Heir, Proper
      <4> QED
        BY <2>1, <2>2, <2>5, <2>7, <2>8, <2>10, <3>1, <3>3, <4>1, CommitAgrees
          DEF LoginArrives
    <3> QED
      BY <3>2, <3>3
  <2>11. CASE LogoutArrives(s)
    <3>1. ~ lost => Authenticated(cookie') = Nobody
      BY <2>3, <2>4, <2>11 DEF LogoutArrives, Answered, Heir
    <3> QED
      BY <2>1, <2>5, <2>6, <2>11, <3>1, CommitAgrees DEF LogoutArrives
  <2>12. CASE SaveArrives(s)
    <3>1. req[s].kind = "save" /\ req[s].step = "call"
      BY <2>12 DEF SaveArrives, Answered
    <3>2. Authenticated(cookie') = Authenticated(cookie)
      BY <2>3, <2>4, <3>1 DEF Heir, Proper
    <3>3. CASE req[s].answer.ok
      <4>1. cookie' \in Cookie /\ csrf' \in BOOLEAN
        BY <2>1, CookieTyped DEF TypeOK
      <4>2. GoOn(s, "current") \in Requests
        BY <2>1, <4>1, GoOnTyped
      <4>3. /\ AllProper(GoOn(s, "current"), cookie')
            /\ ~ lost => AllWhole(GoOn(s, "current"))
        BY <2>1, <2>2, GoOnProper, GoOnWhole
      <4> QED
        BY <2>1, <2>2, <2>7, <2>8, <2>12, <3>1, <3>2, <3>3, <4>2, <4>3, CommitAgrees
          DEF SaveArrives
    <3>4. CASE ~ req[s].answer.ok
      BY <2>1, <2>2, <2>5, <2>8, <2>12, <3>1, <3>2, <3>4, CommitAgrees
        DEF SaveArrives
    <3> QED
      BY <3>3, <3>4
  <2>13. CASE PasswordArrives(s) \/ AccountArrives(s)
    <3>1. req[s].kind \in {"password", "account"}
      BY <2>13 DEF PasswordArrives, AccountArrives, Answered
    <3>2. Authenticated(cookie') = Authenticated(cookie)
      BY <2>3, <2>4, <3>1 DEF Heir, Proper
    <3>3. PICK acc : Commit(auth, place, acc, Over(s))
      BY <2>13 DEF PasswordArrives, AccountArrives
    <3> QED
      BY <2>1, <2>2, <2>5, <2>8, <3>1, <3>2, <3>3, CommitAgrees
  <2> QED
    BY <1>3, <2>9, <2>10, <2>11, <2>12, <2>13 DEF Deliver, Kind
<1> QED
  BY <1>1, <1>2, <1>3

-----------------------------------------------------------------------------

LEMMA InitAgrees ==
  ASSUME Init
  PROVE  Agreement
<1>1. 1 \in Slot /\ req[1].kind = "init" /\ req[1] # Idle
  BY DEF Init, Slot, Idle
<1>2. \A s \in Slot \ {1} : req[s] = Idle
  BY DEF Init
<1>3. Starting
  BY <1>1, <1>2 DEF Starting, Alone, Init
<1>4. ~ Overlap(req)
  BY <1>1, <1>2 DEF Overlap, Changing
<1>5. req[1].jar = cookie /\ req[1].step = "csrf" /\ req[1].answer = Pending
  BY <1>1 DEF Init
<1>6. AllProper(req, cookie) /\ AllWhole(req)
  BY <1>1, <1>2, <1>5 DEF AllProper, Proper, AllWhole, Whole
<1>7. auth.user = Nobody
  BY DEF Init
<1> QED
  BY <1>3, <1>4, <1>6, <1>7 DEF Agreement

LEMMA StepAgrees ==
  ASSUME TypeOK, Agreement, [Next]_vars
  PROVE  Agreement'
<1>1. CASE UNCHANGED vars
  BY <1>1 DEF vars, Agreement, Overlap, AllProper, Proper, Fits, Left, Heir,
     AllWhole, Whole, Authenticated, Starting, Alone
<1>2. CASE Next
  BY <1>2, UserStepAgrees, ReloadAgrees, ServeAgrees, LoseAgrees, DeliverAgrees
    DEF Next
<1> QED
  BY <1>1, <1>2

\* When nothing is in flight the tab shows the user whom the server takes the
\* browser for, unless an answer was lost, a password was changed, or a request
\* that changes the session ran beside another one since the page was loaded.
THEOREM TabAgrees == Spec => []TabAgreesWithServer
<1>1. Agreement /\ TypeOK /\ SpinnersHaveRequests => TabAgreesWithServer
  <2> SUFFICES ASSUME Agreement, TypeOK, SpinnersHaveRequests, AtRest,
                      ~ crossed, ~ lost
               PROVE  auth = Loaded(Authenticated(cookie))
    BY DEF TabAgreesWithServer
  <2>1. ~ Starting
    BY DEF AtRest, Starting, Alone
  <2>2. auth.user = Authenticated(cookie)
    BY <2>1 DEF Agreement
  <2>3. ~ auth.loading
    BY DEF SpinnersHaveRequests, AppAwaits, AtRest
  <2> QED
    BY <2>2, <2>3 DEF Loaded, TypeOK, Auth
<1> QED
  BY <1>1, InitAgrees, StepAgrees, TypeCorrect, NoSpinnerIsLeft, PTL DEF Spec

\* At every moment, also with requests in flight and after answers were lost, the
\* tab shows nobody or the user whom the server takes the browser for, unless a
\* password was changed or a request that changes the session ran beside another
\* one since the page was loaded.
THEOREM WhoIsShownIsServed == Spec => []ShownIsServed
<1>1. Agreement => ShownIsServed
  BY DEF Agreement, ShownIsServed
<1> QED
  BY <1>1, InitAgrees, StepAgrees, TypeCorrect, PTL DEF Spec

=============================================================================
