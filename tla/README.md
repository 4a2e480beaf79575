# A TLA+ development of the library application

The repository is a library: a Rails 7.1 JSON API on PostgreSQL (`src/app`,
`src/db`, `src/lib/tasks`) and a React single-page application
(`src/frontend`).  Members borrow books; librarians keep the catalogue and the
members, take loans back, and have overdue loans marked.  These modules model
the parts of it that are hard to test, in three systems that share no module:

- **the server**: requests that run at the same time on one database, each of
  them several SQL statements long;
- **the tab**: one browser tab and its session, with a cookie that travels back
  and forth while answers are reordered and lost;
- **the pages**: the lists, forms and dialogues, with requests that nothing
  cancels.

## The system

| Component | State | Operations | What makes it correct |
|---|---|---|---|
| Schema (`db/schema.rb`) | tables books, users, borrowings; foreign keys; unique indexes on `books.isbn` and `users.email` | SQL statements | references hold, ISBNs are unique |
| Borrowings (`borrowings_controller.rb`, `borrowing.rb`) | a request's loaded book, its due date, a loan being returned | `create`, `return_book`, `index` | a book is lent at most as often as it has copies, to one reader at most once; a returned loan stays returned |
| Availability (`book.rb`) | none | `available_copies`, `with_can_borrow_for`, `search`, `top_by_borrowings` | what the page offers is what the server accepts |
| Overdue service (`overdue_service.rb`, `overdue.rake`) | a relation, a date | `mark_overdue_books` | only loans past their due date are marked; those that are get a notice |
| Catalogue (`books_controller.rb`) | a loaded row, a form | `create`, `update`, `destroy` | two librarians never store one ISBN twice; a book goes with its loans or not at all |
| Members (`members_controller.rb`, `user.rb`) | a loaded row | `create`, `update`, `destroy` | the same for a member |
| Accounts and sessions (`accounts_controller.rb`, `sessions_controller.rb`, `api/client.ts`) | cookie session with the salt of a password, CSRF token | sign in and out, current user, change profile and password | the tab shows the user whom the server takes it for |
| Authentication context and routing (`AuthContext`, `App`, `Login`, `Account`) | user, loading flag, path, the Account page's flags and message | `login`, `logout`, `refresh`, `saveProfile`, `changePassword`, navigation, reload | every spinner ends; a signed-in tab can write |
| Librarian's pages | query, rows, dialogue, flags of rows | search, filter, sort, turn the page, create, edit, delete, return, mark overdue | at rest the list on the screen is what the server has for the query on the screen |
| Member's pages (`BorrowButton`, search) | the same, a timer | search, filter, sort, borrow | the same; an answer meets the dialogue that asked |
| Seed tasks (`borrowings.rake`, `bestsellers.rake`) | none | delete and recreate loans, upsert books | a run can be repeated |

The parts of the server share the database and nothing else.  Puma serves
requests on several threads of several processes (`config/puma.rb`), PostgreSQL
runs in its default READ COMMITTED mode, and no code takes a lock, so a request's
next statement may see what other requests committed since its last one.  The
front end talks to the server by HTTP only.  `AuthContext` decides what `App`
renders, and so which page is mounted at all; the pages share nothing with each
other.

Hard behaviours: validations that read before an INSERT; a `total_copies` loaded
before it is used; `destroy!`, which loads the loans it will delete; `update!`,
which writes only the columns that differ from a row loaded earlier; a lazy
relation that is queried again after it has been updated; requests that die
between statements; midnight; answers that arrive in another order than their
requests were sent, or never; functions that go on after their component was
unmounted; a password change that ends the session it was made in; a list that
is edited locally while another is being loaded.

## Modules

| Module | Models | State and actions |
|---|---|---|
| `Database` | schema, threads | `books`, `users`, `loans` are partial functions from ids to rows; `issued` are the ids the sequences have given out; `day` is `Date.current`; `req[t]` is what the request on thread `t` holds in memory; `notified` is the log of overdue notices; a book's `most` is history.  Row and request types, INSERT and DELETE, foreign keys, the ISBN index. |
| `Borrowings` | `BorrowingsController#create`, `#return_book`, `Borrowing` | `BorrowRequest` (set_book), `ValidateDuplicate` (set_defaults and the first validation), `ValidateCopies`, `InsertLoan`; `ReturnRequest` (set_borrowing), `ReturnWrite` (return!).  `available_copies`, `can_borrow`. |
| `Overdue` | `OverdueService` | `MarkOverdueRequest` (`empty?`), `UpdateAll`, `Notify` |
| `Catalogue` | `BooksController` | `CreateBookRequest`, `ValidateNewBook`, `InsertBook`; `UpdateBookRequest`, `ValidateBook`, `UpdateBook`; `DestroyBookRequest`, `DestroyBook` |
| `Members` | `MembersController` | `CreateMemberRequest`, `InsertMember`; `DestroyMemberRequest`, `DestroyMember` |
| `Library` | the server | all of the above on `Thread` threads, `NextDay`, `Crash`; the properties; the refinement |
| `LendingDesk` | what the server promises | one atomic step per operation |
| `Session` | the cookie, `SessionsController`, `AccountsController`, `protect_from_forgery` | `salt`, `cookie`, `csrf`; `req[s]` is an async function with the request it awaits; `Serve` answers it |
| `Tab` | `AuthContext`, `App`, `Login`, `Account` | `auth`, `place`, `account`; `SignIn`, `SignOut`, `SaveProfile`, `ChangePassword`, `Navigate`, `Reload`; one action per `await` that returns; `Commit` is React's commit, which mounts and unmounts pages; `Lose` |
| `ListPage` | what the pages with a list share | `query` (filter, page, column and direction), `rows`, `timer`, `dialog`, `busy`, `done`, `req`, and the `table` behind the page; filters, order, LIMIT and OFFSET; pagers; `ShowRows` unmounts the components of rows that went |
| `Editing` | Books and Members of the librarian | `Create`, `Save`, `Remove`, their answers, and what the server does with them |
| `LibrarianPages` | `pages/librarian/*` | Books, Members, Borrowings (`ConfirmReturn`, `ReloadArrives`), Dashboard (`MarkOverdue`) |
| `MemberPages` | `pages/member/*`, `BorrowButton` | Borrowings, Books (`OpenBorrow`, `ConfirmBorrow`), the dashboards' search (`QuickType`, `QuickSend`), the member's with BorrowButtons that go when the field is emptied |
| `Pages` | the pages together | `Visit`, `Others` (other people change the table); the properties |
| `MCLibrary`, `MCPages` | | symmetry, dates and action constraints for model checking |
| `LibraryProofs`, `IntegrityProofs`, `LendingProofs`, `RefinementProofs` | | theorems about the server |
| `TabProofs`, `AgreementProofs` | | theorems about the tab |
| `PagesProofs`, `CurrencyProofs` | | theorems about the pages |

**The server.**  One action is one SQL statement that another request can slip in
front of, with everything the code does up to the next one.  Reads that follow
each other with no effect between them (authentication, then `set_book`) are one
step, because the only difference an interleaving makes there is one that a later
step makes too.  Statements of one transaction take effect in the step that
commits it.  A second validation that runs after a first has failed only reads;
the request ends when the first fails.  Titles, names, comments' text, e-mail
addresses and passwords are data no rule modelled here reads.  `borrowed_at` only
orders lists.  A failed INSERT uses up a sequence number; nothing can see that.
A member is created in two statements: a form that the validations refuse (422) has
no effect and is left out, and the unique index may refuse one that they accepted
(500), as `InsertMember` allows without saying for which e-mail.

`books[b].most` is the largest `total_copies` the book has had.  No statement reads
it; the rules about overlending are stated with it, book by book, because a request
may decide on the copies that `set_book` loaded before a librarian edited them.
`LendingDesk` without slack lends by `total_copies` itself.

**The tab.**  A request carries the cookie the browser has when it is sent; the
answer brings a cookie, which the browser stores before the code sees the answer.
Warden keeps in the session the salt of the password it was opened with, so
`salt[u]` is all there is of a password.  A function knows (`here`) whether its
component is still mounted; when it is not, what it sets is lost.  While
`state.loading` App renders a spinner in place of every page, so each dispatch of
`"loading"` unmounts the page that caused it; `Commit` does this for every step.

**The pages.**  One page is shown at a time, over one table whose rows keep what
the page tells apart: the ISBN or e-mail, the status of a loan, whether a book can
be borrowed.  The server answers in one step, as `LendingDesk` does (the
theorem `ServerImplementsDesk` is what justifies this), or refuses.  The table is
finite, as tables are, and starts with any rows.  A search text stands for what it
finds; a search field that is empty shows no list and asks for none
(`BlankSearch`).  Loans are sorted by a date and then by id, as
`BorrowingsController#index` does; `Date` gives every row its dates, in whatever
order.  Members are sorted by `created_at` alone, those of one date in any order,
and books not at all.  An open dialogue does not keep the keyboard from the fields
behind it (`Modal` traps no focus), so queries change and rows are deleted behind
one; a second dialogue over the first is left out (`Open`).  A handler goes on
after its page was left: the reload after a return is still sent, for nobody
(`NextList`).  `live` and `asked` say whether the row and the dialogue
a request came from are still there, as React's unmounting decides.

History variables record why a page may disagree with the server: `disturbed` and
`patched` for the pages, `crossed` and `lost` for the tab.  They are reset when the
page is opened or loaded anew, `patched` with every list.  What they record does happen in the
code, and then the page is wrong until it is loaded again; the hazards that name
these events have no property in `PROJECT.json` and say so:

| Event | Recorded by | Excluded from |
|---|---|---|
| an older list arrives last (`Overtaken`), also from a stale `load()` | `disturbed` | `RowsAreCurrent`, `ListAnswersQuery`, `MoreIsReachable` |
| a change beside another request (`Overlap`), a lost answer, other people's changes | `disturbed` | the same three |
| the list was edited locally (a row created, saved, deleted, borrowed) | `patched`, `done` | `ListAnswersQuery`, `MoreIsReachable`: such a list may be longer or shorter than a page, and the pager may go |
| session requests overlap, a password is changed | `crossed` | `TabAgreesWithServer`, `ShownIsServed` |
| an answer is lost | `lost` | `TabAgreesWithServer`, `SignedInHasToken` |

`AnswerMeetsItsDialog`, `LockedRowsAreAwaited`, `SpinnersHaveRequests` and
`SpinnerEnds` hold without any such condition, `ShownIsServed` whatever is lost, and
`SignedInHasToken` however requests overlap.

## What is checked

| Run | Question | Bounds |
|---|---|---|
| `lending` | two requests at a time: `TypeOK`, `ReturnDateConsistent`, `OverdueIsPastDue`, `LoanLifecycle`, `OverbookingBounded`, `DuplicatesBounded`, and `ImplementsDesk` with one loan of slack | a librarian and a member as readers, one book of at most one copy, two loans, three days |
| `catalogue` | two requests at a time: `ReferentialIntegrity`, `IsbnUnique` | two books, two ISBNs, two loans, one day |
| `serial` | one request at a time: `NoDuplicateActive`, `LendsOnlyWhenOffered`, `ImplementsDesk` without slack | two readers, one book of at most two copies, three loans, a comment, three days |
| `session` | do spinners end, does the tab at rest show the user the server takes it for, never somebody else, has it a token: `TypeOK`, `SpinnersHaveRequests`, `SpinnerEnds`, `TabAgreesWithServer`, `ShownIsServed`, `SignedInHasToken` | one user, one password change, two functions in flight |
| `pages` | does an undisturbed page show what the server has, do rows unlock, do answers meet their dialogue: `TypeOK`, `RowsAreCurrent`, `ListAnswersQuery`, `MoreIsReachable`, `AnswerMeetsItsDialog`, `LockedRowsAreAwaited` | eight pages, two rows on pages of one, two keys, one status to filter by besides none, two requests in flight |
| `race_overbook` | can the last copy be lent twice?  **Yes.** | two threads |
| `race_duplicate` | can a reader get a book twice?  **Yes.** | two threads |
| `overdue_second_copy` | can a reader who has not returned a book borrow it again?  **Yes, once it is overdue.** | one thread |
| `overdue_notice` | is every loan that is marked also logged?  **No, none is.** | one thread |
| `overdue_automatic` | are loans that fall due marked?  **Not unless somebody asks.** | one thread, fair |
| `profile_saved` | is a saved profile confirmed?  **No: the page that would say so has been unmounted.** | one user, one request |
| `overdue_stuck` | can every open loan be returned from the librarian's page?  **No, an overdue one has no button.** | one loan |

The last seven runs end in a counterexample; each is a disagreement between the
code and a sentence of its tests or documents, quoted in `PROJECT.json`.

Bounds of the server.  `LoanPeriod` is 1 instead of 14 so that three days
(`MaxDay` = 2) are enough for a loan to fall due, be marked and be returned.  Two
threads are enough for every race of two requests, and the theorems cover any
number.  Loan, book and member ids stand for what the sequences can still give
out: a run in which they are used up fails its INSERT as an exhausted sequence
would, so the bound stops nothing.  A book form may carry -1, standing for the
negative numbers the validation must refuse.  `NextDay` assumes that a request
does not live through two midnights.

Bounds of the tab.  `MaxFlight` = 2 functions are enough for every pair that can
overlap (the first load beside a sign-in cannot; a profile being saved beside a
sign-out, or a reload beside a password change that was sent before, can).
`MaxSalt` = 1: a second change of the password adds another old session, which
is refused like the first.

Bounds of the pages.  `PageSize` = 1 stands for 25: a list of two rows has a full
page, a next page, and a page that is exactly full and the last; `LastPage` = 2.
Loan 1 is past its due date (`Due`), loan 2 is not.  `Chosen` = one status: the
others are filtered alike, and the statuses that rows take are all three.
The two loans were borrowed on two days and are due on one (`Dates`), the later one
first, so that the columns sort them differently and a tie is broken by id; two
members were created on one day.  ISBNs are interchangeable (`SYMMETRY`).  Two
constraints keep the run small.  `SettlesOnceDisturbed` stops new requests, losses
and other people on a page that is disturbed already, until it is opened anew; a
list of loans is then opened anew before the answers it waits for arrive.
`OthersWait` keeps others from changing the loans, since a list opened after them is
one opened on another table and the run starts with every table, and loses an answer
on such a list only while no other is awaited.  `RowsAreCurrent`, `ListAnswersQuery` and `MoreIsReachable` say nothing of a
disturbed page, a list of loans has neither flags nor borrow dialogues, and all six
properties of the run are proved without the constraints.

The larger state spaces: `lending` 1 020 778, `catalogue` 1 029 279, `serial`
1 073 791, `session` 349 374 and `pages` 718 224 distinct states.

Fairness is stated in two places.  `Library.FairSpec`: Puma keeps running a
request it has accepted (`WF_vars(Serve(t))`) and time passes
(`WF_vars(NextDay)`).  Nothing makes a person send a request, and nothing in the
repository calls the overdue service by itself; `overdue_automatic` shows what
follows.  `Tab.FairSpec`: a request that was sent is answered or fails
(`WF_vars(Serve(s))`) and the browser runs the function that awaits it
(`WF_vars(Deliver(s))`); nobody is made to press a button.  `SpinnerEnds` holds
under it unless somebody reloads the page for ever, which starts the wait anew
each time, and the property says so.

## What is proved

Every invariant and action property of the passing runs, and the refinement, for
every value of the constants.  The proofs assume the named assumptions of the
modules that declare the constants: `ConstantsAssumption` and `IdsAssumption` of
`Database`, `SessionAssumption` and `KeepAssumption` of `Session`,
`ListAssumption`, `DateAssumption` and `PendingAssumption` of `ListPage`.  `KeepAssumption` and
`PendingAssumption` only say that the markers for "the answer sets no cookie" and
"not answered yet" are no cookie and no answer.

The server (any finite set of threads, any sets of readers, books and loans, any
number of copies and days):

- `TypeCorrect`: `TypeOK`, together with the finiteness of the loans table that
  the counting in `UpdateAll` needs.  The requests' types say what each program
  counter guarantees (a form that reaches `insert_book` is a valid row), which
  is what makes `TypeOK` inductive.
- `ReferencesHold`: `ReferentialIntegrity`.  A deleted book's loans are all in
  the snapshot `destroy!` loaded, or the transaction rolls back; an INSERT checks
  both keys.
- `IsbnsUnique`: `IsbnUnique`, by the index alone.
- `OverdueOnlyPastDue`: `OverdueIsPastDue`, strengthened by `ArrivedByToday`: the
  date a request bound is never in the future.
- `ReturnsConsistent` and `LifecycleHolds`: strengthened by `LoadedReturnsStand`
  (a loan loaded as returned still is) and `IdsIssued` (a deleted loan's id is not
  given to another).  Without them, `return!` on a row loaded as returned could
  set the date and leave the status of a row that was something else.
- `OverbookingLimited` and `DuplicatesLimited`: the loans of a book plus the
  requests that may still add one.  A validation that passes sees fewer loans than
  the copies that `set_book` loaded, which are copies the book has had
  (`TotalsHadBeen`), and no more than `Cardinality(Thread)` requests can be past
  theirs; an INSERT moves one unit from the requests to the loans; an edit never
  lowers `most`; nothing else adds to either count.
- `SerialServerKeepsRules`: with one thread a book is never lent more often than the
  most copies it has had, nor twice to one reader.
- `ServerImplementsDesk`: `ImplementsDesk`, the refinement, with the identity on
  the tables and a slack of one loan per thread beyond the first.  Each step of
  the server is a step of the desk or leaves the tables alone.  The invariant
  `RefInv` adds to those above what a request's memory is worth when it is written
  down: `RequestsRecent` and `DueReckoned` (a decision is written on the day it
  was taken or the day after, and the due date was reckoned in between),
  `ChildrenStay` (the loans `destroy!` loaded are still loans of that book or
  member, so the foreign keys leave it either all of them or a rollback), and, for
  one thread only, `ReadStands` (what a borrow request read is still true).
- `SerialServerLendsWhatItOffers`: `LendsOnlyWhenOffered` with one thread, from
  `ReadStands`: the Ruby validations and the SQL of `can_borrow` then agree.

The tab (any users, any number of functions in flight):

- `TypeCorrect`: `TypeOK` of `Session`.
- `NoSpinnerIsLeft`: `SpinnersHaveRequests`, an induction over the commits: a page
  mounts with flags down and its request sent, an unmount takes the flags with it,
  and a function that ends either lowers its flag or was no longer `here`.
- `SignedInCanWrite`: `SignedInHasToken`, strengthened by `TokenComing`: as long as
  a tab that has lost nothing has no token, the one function whose answer it waits
  for is the one that fetches it, and nobody is shown as signed in.  A password
  change that was sent before the page was loaded anew may still be in flight.
- `TabAgrees` and `WhoIsShownIsServed`: `TabAgreesWithServer` and `ShownIsServed`, by
  one invariant, `Agreement`.  While session requests do not overlap and no password
  changes, no request that changes the session has company, each request in flight
  was sent with a cookie that signs in the same user as the browser's does now, and
  an answer that has come is an error or brings the user whom its cookie will sign
  in (`Fits`).  So an answer that is heard moves user and cookie together, and one
  that is lost can at most leave nobody shown.  As long as nothing is lost every
  request has its token (`Whole`) and the user shown is the one who is served, except
  until the first load has ended, when nobody is shown and nothing else runs
  (`Starting`).

The pages (any rows, contents and page size, any number of requests):

- `PagesTyped`: `TypeOK`, from `Typed`, which adds what the handlers rely on: the
  table is finite, each request has the id and content that its kind needs, and a
  page has only the dialogues and requests that its own buttons open (`Fitting`).
- `FlagsFollowRequests`: `LockedRowsAreAwaited`, strengthened by `LockersLock` (a
  request that will unlock a row finds it locked), so that two requests never hold
  one row; a list that arrives takes away flag and holder together.
- `AnswersAreOwn`: `AnswerMeetsItsDialog`.  A dialogue that is closed while its
  request is pending leaves the row locked, so that no dialogue of that row opens
  before the answer has come; a row that went and came back has lost its request.

- `ScreenIsCurrent`, `QueryIsAnswered`: `RowsAreCurrent` and `ListAnswersQuery`.
  Both are about pages at rest, and neither is inductive: while a request is in
  flight the rows are behind and the list may be the answer to another query.  The
  invariant `Settled` says by how much.  In an undisturbed page a row that differs
  from the table has a carried-out save, delete or borrow of its own whose answer
  is still to come, or the list is about to be loaded anew (`RowsFit`); what a call
  has done is still so (`CarriedOut`), because a call has no company (`Overlap`);
  an answered list still is a list of the table (`ListsAnswered`); an unedited
  list that is no answer to the query waits for one (`ListFits`); and a call whose
  answer nobody will hear, since its page or its button has gone, leaves an empty
  list behind (`CallsHeard`).  When nothing is in flight no excuse is left.
- `PagesAreReachable`: `MoreIsReachable`.  A list that answers the query and has
  rows after it fills its page exactly (`FullPage`), so `length === 25` finds it.
- `EachLoanOnOnePage`: the order of the lists of loans has no ties, whatever their
  dates (`order(borrowed_at: dir, id: dir)`).  There is one sorted order of a finite set
  (`SortedExists` puts each element at the place it counts for itself, `SortedOnce`
  shows that no other order is sorted), LIMIT and OFFSET cut that one whatever the
  page, and so each loan is on exactly one page of a table that does not change.
  Nothing of the kind holds of the list of books, which has no ORDER BY, nor of the
  members created at one moment.

Only model-checked: the temporal properties `SpinnerEnds` and `PastDueIsMarked`
(liveness under fairness is out of the prover's reach).

## Not modelled

- The seed tasks: demonstration data, prepared by hand on a server nobody uses
  yet, without rules to keep.
- Devise's own controllers (registration, password recovery): gem code of which
  no page calls any.
- Of the librarian's dashboard `desk` has the loans its figures count; the other
  figures (genres, due soon) and those of the member's dashboard are reads.  The
  BorrowButtons of the member's top books are the component of the search results
  in another place.  The text search and the date of the lists of loans are
  filters like the status.
- The texts of `MembersController#update` and `AccountsController#update` (names,
  e-mail): data behind the validity of the form.  `Editing` has the update of a
  member as one atomic operation.
- Lost updates: an edit form sends every field as it was when it was opened, so
  that the later of two librarians wins; nothing in the repository promises more.
  The audit trail of a second return (`returned_at`, the comment) likewise.
- The `X-CSRF-Token` of the pages: `Tab` shows that it is there; a page's refused
  request stands for a missing one.
- Presentational components, scaffolding, build files.
